---- MODULE Spec2Model ----
(***************************************************************************)
(* Model of the Celtic-knot lattice of conbhuide: the connection graph     *)
(* (src/src/edge.rs, TileMatrix) toggled by clicks, the tile classifier    *)
(* (tile_for_pos / cut_for_tile) and the glyph resolver                    *)
(* (src/src/celtic.rs, draw_expr_for_tile).                                *)
(*                                                                         *)
(* Pixel coordinates are integers.  The f32 quotients of the source are    *)
(* kept as exact fractions: x_ft is a numerator over 2*tile_size, y_ft a   *)
(* numerator over tile_size.  With tile_size a power of two every f32      *)
(* operation of the source is exact on these values, so the fractions      *)
(* compare exactly as the floats do.                                       *)
(***************************************************************************)
EXTENDS Integers, FiniteSets, Sequences, TLC

\* ---------------------------------------------------------------- bounds
TilesX == 2
TilesY == 2
Margin == 1
MaxEdges == 2
LifeCols == 3
LifeRows == 3
MaxFrameTime == 2
MaxTile == 9

\* ------------------------------------------------------- TileMatrix::new
tile_size == 4

screen_size == <<TilesX * tile_size, TilesY * tile_size>>

width == screen_size[1] \div tile_size

height == screen_size[2] \div tile_size

\* the nodes vector holds (width/2 + 1) * (height + 1) nodes
Nodes == (0 .. (width \div 2)) \X (0 .. height)

Tiles == (0 .. (width - 1)) \X (0 .. (height - 1))

\* ------------------------------------------------------ numeric helpers
\* mutant: truncation instead of rounding
RoundTrunc(n, d) == IF n >= 0 THEN n \div d ELSE 0 - ((0 - n) \div d)

\* f32::round of the fraction n/d (d > 0): nearest integer, halves away from 0
Round(n, d) ==
    IF n >= 0 THEN (2 * n + d) \div (2 * d)
    ELSE 0 - ((2 * (0 - n) + d) \div (2 * d))

\* `as u16` of a float or of an i16: saturating at both ends
AsU16(v) == IF v < 0 THEN 0 ELSE IF v > 65535 THEN 65535 ELSE v

\* `as i16` of a u16: wraps
AsI16(v) == IF v >= 32768 THEN v - 65536 ELSE v

Max0(v) == IF v < 0 THEN 0 ELSE v

Abs(v) == IF v < 0 THEN 0 - v ELSE v

Rev(pair) == <<pair[2], pair[1]>>

\* ---------------------------------------------------- lattice geometry
\* mutant: the even rows are the shifted ones
loc_for_node_swapped(x, y) ==
    IF y % 2 = 1
    THEN <<x * tile_size * 2, y * tile_size>>
    ELSE <<tile_size + x * tile_size * 2, y * tile_size>>

loc_for_node(x, y) ==
    IF y % 2 = 0
    THEN <<x * tile_size * 2, y * tile_size>>
    ELSE <<tile_size + x * tile_size * 2, y * tile_size>>

nearest_edge_to_click(screen_pos) ==
    LET y_1    == AsU16(Round(screen_pos[2], tile_size))
        \* numerator of x_ft over 2 * tile_size
        x_ft   == IF y_1 % 2 = 0 THEN screen_pos[1]
                  ELSE screen_pos[1] - tile_size
        x_1    == AsU16(Round(x_ft, 2 * tile_size))
        \* both distances as numerators over 2 * tile_size
        x_dist == x_ft - x_1 * 2 * tile_size
        y_dist == 2 * (screen_pos[2] - y_1 * tile_size)
        node_2 == IF x_dist >= y_dist
                  THEN <<AsU16(Max0(AsI16(x_1) + (IF x_dist >= 0 THEN 1 ELSE -1))),
                         y_1>>
                  ELSE <<x_1,
                         AsU16(Max0(AsI16(y_1) + (IF y_dist >= 0 THEN 2 ELSE -2)))>>
    IN <<<<x_1, y_1>>, node_2>>

\* ------------------------------------------------------- connection graph
\* mutant: a removal empties the whole set
toggle_clear(E, np) ==
    IF np \in E
    THEN [edges |-> {}, add_rem |-> "Removed", node_pair |-> np]
    ELSE [edges |-> (E \cup {np}) \cup {Rev(np)}, add_rem |-> "Added", node_pair |-> np]

\* mutant: the reversed ordering is not inserted
toggle_one_way(E, np) ==
    IF np \in E
    THEN [edges |-> (E \ {np}) \ {Rev(np)}, add_rem |-> "Removed", node_pair |-> np]
    ELSE [edges |-> E \cup {np}, add_rem |-> "Added", node_pair |-> np]

\* mutant: a removal forgets the ordering it was given
toggle_keep_fwd(E, np) ==
    IF np \in E
    THEN [edges |-> E \ {Rev(np)}, add_rem |-> "Removed", node_pair |-> np]
    ELSE [edges |-> (E \cup {np}) \cup {Rev(np)}, add_rem |-> "Added", node_pair |-> np]

\* the contains / remove / insert branch of flip_edge on the i16 node pair
toggle(E, np) ==
    LET node_pair_rev == <<np[2], np[1]>>
    IN IF np \in E
       THEN [edges |-> (E \ {np}) \ {node_pair_rev},
             add_rem |-> "Removed", node_pair |-> np]
       ELSE [edges |-> (E \cup {np}) \cup {node_pair_rev},
             add_rem |-> "Added", node_pair |-> np]

\* mutant: a removal leaves the reversed ordering behind
flip_edge_keep_rev(E, mouse_position) ==
    LET u  == nearest_edge_to_click(mouse_position)
        np == <<<<AsI16(u[1][1]), AsI16(u[1][2])>>, <<AsI16(u[2][1]), AsI16(u[2][2])>>>>
    IN IF np \in E
       THEN [edges |-> E \ {np}, add_rem |-> "Removed", node_pair |-> np]
       ELSE toggle(E, np)

flip_edge(E, mouse_position) ==
    LET node_pair_u == nearest_edge_to_click(mouse_position)
        np          == <<<<AsI16(node_pair_u[1][1]), AsI16(node_pair_u[1][2])>>,
                         <<AsI16(node_pair_u[2][1]), AsI16(node_pair_u[2][2])>>>>
    IN toggle(E, np)

\* -------------------------------------------------------- tile classifier
\* the two connections cut_for_tile looks up for a tile, keyed by
\* (is_bottom, row_offset, col_offset)
cut_candidates(x, y, row_offset, col_offset, is_bottom) ==
    LET n_x == Round(x, 2)
        n_y == y
    IN CASE is_bottom /\ row_offset = "Even" /\ col_offset = "Even" ->
              [vert |-> <<<<n_x, n_y>>, <<n_x, n_y + 2>>>>,
               hori |-> <<<<n_x - 1, n_y + 1>>, <<n_x, n_y + 1>>>>]
         [] is_bottom /\ row_offset = "Odd" /\ col_offset = "Even" ->
              [vert |-> <<<<n_x, n_y>>, <<n_x, n_y + 2>>>>,
               hori |-> <<<<n_x, n_y + 1>>, <<n_x + 1, n_y + 1>>>>]
         [] is_bottom /\ row_offset = "Odd" /\ col_offset = "Odd" ->
              [vert |-> <<<<n_x - 1, n_y>>, <<n_x - 1, n_y + 2>>>>,
               hori |-> <<<<n_x - 1, n_y + 1>>, <<n_x, n_y + 1>>>>]
         [] is_bottom /\ row_offset = "Even" /\ col_offset = "Odd" ->
              [vert |-> <<<<n_x, n_y>>, <<n_x, n_y + 2>>>>,
               hori |-> <<<<n_x - 1, n_y + 1>>, <<n_x, n_y + 1>>>>]
         [] ~is_bottom /\ row_offset = "Even" /\ col_offset = "Even" ->
              [vert |-> <<<<n_x, n_y - 1>>, <<n_x, n_y + 1>>>>,
               hori |-> <<<<n_x, n_y>>, <<n_x + 1, n_y>>>>]
         [] ~is_bottom /\ row_offset = "Odd" /\ col_offset = "Odd" ->
              [vert |-> <<<<n_x, n_y - 1>>, <<n_x, n_y + 1>>>>,
               hori |-> <<<<n_x - 1, n_y>>, <<n_x, n_y>>>>]
         [] ~is_bottom /\ row_offset = "Even" /\ col_offset = "Odd" ->
              [vert |-> <<<<n_x - 1, n_y - 1>>, <<n_x - 1, n_y + 1>>>>,
               hori |-> <<<<n_x - 1, n_y>>, <<n_x, n_y>>>>]
         [] ~is_bottom /\ row_offset = "Odd" /\ col_offset = "Even" ->
              [vert |-> <<<<n_x, n_y - 1>>, <<n_x, n_y + 1>>>>,
               hori |-> <<<<n_x - 1, n_y>>, <<n_x, n_y>>>>]

\* mutant: two present connections read as Vertical
cut_for_tile_no_cross(E, x, y, row_offset, col_offset, is_bottom) ==
    LET c           == cut_candidates(x, y, row_offset, col_offset, is_bottom)
        vert_exists == c.vert \in E
        hori_exists == c.hori \in E
    IN CASE vert_exists -> "Vertical"
         [] ~vert_exists /\ hori_exists  -> "Horizontal"
         [] ~vert_exists /\ ~hori_exists -> "Open"

\* mutant: the two single-connection outcomes are exchanged
cut_for_tile_swapped(E, x, y, row_offset, col_offset, is_bottom) ==
    LET c           == cut_candidates(x, y, row_offset, col_offset, is_bottom)
        vert_exists == c.vert \in E
        hori_exists == c.hori \in E
    IN CASE vert_exists /\ hori_exists   -> "Cross"
         [] vert_exists /\ ~hori_exists  -> "Horizontal"
         [] ~vert_exists /\ hori_exists  -> "Vertical"
         [] ~vert_exists /\ ~hori_exists -> "Open"

cut_for_tile(E, x, y, row_offset, col_offset, is_bottom) ==
    LET c           == cut_candidates(x, y, row_offset, col_offset, is_bottom)
        vert_exists == c.vert \in E
        hori_exists == c.hori \in E
    IN CASE vert_exists /\ hori_exists   -> "Cross"
         [] vert_exists /\ ~hori_exists  -> "Vertical"
         [] ~vert_exists /\ hori_exists  -> "Horizontal"
         [] ~vert_exists /\ ~hori_exists -> "Open"

\* mutant: parities taken as if the coordinates were 1-indexed
tile_for_pos_one_indexed(E, x, y) ==
    LET row_offset == IF y % 2 = 0 THEN "Odd" ELSE "Even"
        col_offset == IF x % 2 = 0 THEN "Odd" ELSE "Even"
    IN [bottom_cut |-> cut_for_tile(E, x, y, row_offset, col_offset, TRUE),
        top_cut    |-> cut_for_tile(E, x, y, row_offset, col_offset, FALSE),
        row_offset |-> row_offset,
        col_offset |-> col_offset]

tile_for_pos(E, x, y) ==
    LET row_offset == IF y % 2 = 1 THEN "Odd" ELSE "Even"
        col_offset == IF x % 2 = 1 THEN "Odd" ELSE "Even"
    IN [bottom_cut |-> cut_for_tile(E, x, y, row_offset, col_offset, TRUE),
        top_cut    |-> cut_for_tile(E, x, y, row_offset, col_offset, FALSE),
        row_offset |-> row_offset,
        col_offset |-> col_offset]

\* ---------------------------------------------------------- glyph resolver
\* what draw_tile is asked to paint: glyph, rotation in degrees
\* (0.0, PI/2, PI, PI*1.5 of the source), flip_x
Glyph(g, r, f) == [glyph |-> g, rotation |-> r, flip_x |-> f]

\* the `_` arm: draw_rectangle(.., BLACK)
ErrorBlock == [glyph |-> "error_block", rotation |-> 0, flip_x |-> FALSE]

\* mutant: the rotations of the two line arms are exchanged
draw_expr_lines_swapped(tile) ==
    LET b  == tile.bottom_cut
        t  == tile.top_cut
        r  == tile.row_offset
        c  == tile.col_offset
        EE == r = "Even" /\ c = "Even"
        EO == r = "Even" /\ c = "Odd"
        OO == r = "Odd" /\ c = "Odd"
        OE == r = "Odd" /\ c = "Even"
    IN CASE b = "Open" /\ t = "Open" /\ EE -> Glyph("straight_cross", 0, FALSE)
         [] b = "Open" /\ t = "Open" /\ EO -> Glyph("straight_cross", 90, FALSE)
         [] b = "Open" /\ t = "Open" /\ OO -> Glyph("straight_cross", 180, FALSE)
         [] b = "Open" /\ t = "Open" /\ OE -> Glyph("straight_cross", 270, FALSE)
         [] b = "Horizontal" /\ t = "Vertical" /\ (OO \/ EE) -> Glyph("corner", 180, FALSE)
         [] b = "Horizontal" /\ t = "Vertical" /\ (OE \/ EO) -> Glyph("corner", 270, FALSE)
         [] b = "Vertical" /\ t = "Horizontal" /\ (OO \/ EE) -> Glyph("corner", 0, FALSE)
         [] b = "Vertical" /\ t = "Horizontal" /\ (OE \/ EO) -> Glyph("corner", 90, FALSE)
         [] b = "Horizontal" /\ t = "Horizontal" -> Glyph("vertical_line", 0, FALSE)
         [] b = "Vertical" /\ t = "Vertical" -> Glyph("vertical_line", 90, FALSE)
         [] b = "Vertical" /\ t = "Open" /\ OO -> Glyph("curved_cross", 180, FALSE)
         [] b = "Vertical" /\ t = "Open" /\ EE -> Glyph("curved_cross_under", 0, FALSE)
         [] b = "Vertical" /\ t = "Open" /\ OE -> Glyph("curved_cross_under", 0, TRUE)
         [] b = "Vertical" /\ t = "Open" /\ EO -> Glyph("curved_cross", 180, TRUE)
         [] b = "Open" /\ t = "Vertical" /\ OO -> Glyph("curved_cross_under", 180, FALSE)
         [] b = "Open" /\ t = "Vertical" /\ OE -> Glyph("curved_cross", 0, TRUE)
         [] b = "Open" /\ t = "Vertical" /\ EE -> Glyph("curved_cross", 0, FALSE)
         [] b = "Open" /\ t = "Vertical" /\ EO -> Glyph("curved_cross_under", 180, TRUE)
         [] b = "Horizontal" /\ t = "Open" /\ OO -> Glyph("curved_cross", 270, TRUE)
         [] b = "Horizontal" /\ t = "Open" /\ OE -> Glyph("curved_cross_under", 270, FALSE)
         [] b = "Horizontal" /\ t = "Open" /\ EE -> Glyph("curved_cross_under", 90, TRUE)
         [] b = "Horizontal" /\ t = "Open" /\ EO -> Glyph("curved_cross", 90, FALSE)
         [] b = "Open" /\ t = "Horizontal" /\ OO -> Glyph("curved_cross_under", 270, TRUE)
         [] b = "Open" /\ t = "Horizontal" /\ OE -> Glyph("curved_cross", 270, FALSE)
         [] b = "Open" /\ t = "Horizontal" /\ EE -> Glyph("curved_cross", 90, TRUE)
         [] b = "Open" /\ t = "Horizontal" /\ EO -> Glyph("curved_cross_under", 90, FALSE)
         [] OTHER -> ErrorBlock

\* mutant: the last arm of the table is missing
draw_expr_missing_arm(tile) ==
    LET b  == tile.bottom_cut
        t  == tile.top_cut
        r  == tile.row_offset
        c  == tile.col_offset
        EE == r = "Even" /\ c = "Even"
        EO == r = "Even" /\ c = "Odd"
        OO == r = "Odd" /\ c = "Odd"
        OE == r = "Odd" /\ c = "Even"
    IN CASE b = "Open" /\ t = "Open" /\ EE -> Glyph("straight_cross", 0, FALSE)
         [] b = "Open" /\ t = "Open" /\ EO -> Glyph("straight_cross", 90, FALSE)
         [] b = "Open" /\ t = "Open" /\ OO -> Glyph("straight_cross", 180, FALSE)
         [] b = "Open" /\ t = "Open" /\ OE -> Glyph("straight_cross", 270, FALSE)
         [] b = "Horizontal" /\ t = "Vertical" /\ (OO \/ EE) -> Glyph("corner", 180, FALSE)
         [] b = "Horizontal" /\ t = "Vertical" /\ (OE \/ EO) -> Glyph("corner", 270, FALSE)
         [] b = "Vertical" /\ t = "Horizontal" /\ (OO \/ EE) -> Glyph("corner", 0, FALSE)
         [] b = "Vertical" /\ t = "Horizontal" /\ (OE \/ EO) -> Glyph("corner", 90, FALSE)
         [] b = "Horizontal" /\ t = "Horizontal" -> Glyph("vertical_line", 90, FALSE)
         [] b = "Vertical" /\ t = "Vertical" -> Glyph("vertical_line", 0, FALSE)
         [] b = "Vertical" /\ t = "Open" /\ OO -> Glyph("curved_cross", 180, FALSE)
         [] b = "Vertical" /\ t = "Open" /\ EE -> Glyph("curved_cross_under", 0, FALSE)
         [] b = "Vertical" /\ t = "Open" /\ OE -> Glyph("curved_cross_under", 0, TRUE)
         [] b = "Vertical" /\ t = "Open" /\ EO -> Glyph("curved_cross", 180, TRUE)
         [] b = "Open" /\ t = "Vertical" /\ OO -> Glyph("curved_cross_under", 180, FALSE)
         [] b = "Open" /\ t = "Vertical" /\ OE -> Glyph("curved_cross", 0, TRUE)
         [] b = "Open" /\ t = "Vertical" /\ EE -> Glyph("curved_cross", 0, FALSE)
         [] b = "Open" /\ t = "Vertical" /\ EO -> Glyph("curved_cross_under", 180, TRUE)
         [] b = "Horizontal" /\ t = "Open" /\ OO -> Glyph("curved_cross", 270, TRUE)
         [] b = "Horizontal" /\ t = "Open" /\ OE -> Glyph("curved_cross_under", 270, FALSE)
         [] b = "Horizontal" /\ t = "Open" /\ EE -> Glyph("curved_cross_under", 90, TRUE)
         [] b = "Horizontal" /\ t = "Open" /\ EO -> Glyph("curved_cross", 90, FALSE)
         [] b = "Open" /\ t = "Horizontal" /\ OO -> Glyph("curved_cross_under", 270, TRUE)
         [] b = "Open" /\ t = "Horizontal" /\ OE -> Glyph("curved_cross", 270, FALSE)
         [] b = "Open" /\ t = "Horizontal" /\ EE -> Glyph("curved_cross", 90, TRUE)
         [] OTHER -> ErrorBlock

draw_expr_for_tile(tile) ==
    LET b  == tile.bottom_cut
        t  == tile.top_cut
        r  == tile.row_offset
        c  == tile.col_offset
        EE == r = "Even" /\ c = "Even"
        EO == r = "Even" /\ c = "Odd"
        OO == r = "Odd" /\ c = "Odd"
        OE == r = "Odd" /\ c = "Even"
    IN CASE b = "Open" /\ t = "Open" /\ EE -> Glyph("straight_cross", 0, FALSE)
         [] b = "Open" /\ t = "Open" /\ EO -> Glyph("straight_cross", 90, FALSE)
         [] b = "Open" /\ t = "Open" /\ OO -> Glyph("straight_cross", 180, FALSE)
         [] b = "Open" /\ t = "Open" /\ OE -> Glyph("straight_cross", 270, FALSE)
         [] b = "Horizontal" /\ t = "Vertical" /\ (OO \/ EE) -> Glyph("corner", 180, FALSE)
         [] b = "Horizontal" /\ t = "Vertical" /\ (OE \/ EO) -> Glyph("corner", 270, FALSE)
         [] b = "Vertical" /\ t = "Horizontal" /\ (OO \/ EE) -> Glyph("corner", 0, FALSE)
         [] b = "Vertical" /\ t = "Horizontal" /\ (OE \/ EO) -> Glyph("corner", 90, FALSE)
         [] b = "Horizontal" /\ t = "Horizontal" -> Glyph("vertical_line", 90, FALSE)
         [] b = "Vertical" /\ t = "Vertical" -> Glyph("vertical_line", 0, FALSE)
         [] b = "Vertical" /\ t = "Open" /\ OO -> Glyph("curved_cross", 180, FALSE)
         [] b = "Vertical" /\ t = "Open" /\ EE -> Glyph("curved_cross_under", 0, FALSE)
         [] b = "Vertical" /\ t = "Open" /\ OE -> Glyph("curved_cross_under", 0, TRUE)
         [] b = "Vertical" /\ t = "Open" /\ EO -> Glyph("curved_cross", 180, TRUE)
         [] b = "Open" /\ t = "Vertical" /\ OO -> Glyph("curved_cross_under", 180, FALSE)
         [] b = "Open" /\ t = "Vertical" /\ OE -> Glyph("curved_cross", 0, TRUE)
         [] b = "Open" /\ t = "Vertical" /\ EE -> Glyph("curved_cross", 0, FALSE)
         [] b = "Open" /\ t = "Vertical" /\ EO -> Glyph("curved_cross_under", 180, TRUE)
         [] b = "Horizontal" /\ t = "Open" /\ OO -> Glyph("curved_cross", 270, TRUE)
         [] b = "Horizontal" /\ t = "Open" /\ OE -> Glyph("curved_cross_under", 270, FALSE)
         [] b = "Horizontal" /\ t = "Open" /\ EE -> Glyph("curved_cross_under", 90, TRUE)
         [] b = "Horizontal" /\ t = "Open" /\ EO -> Glyph("curved_cross", 90, FALSE)
         [] b = "Open" /\ t = "Horizontal" /\ OO -> Glyph("curved_cross_under", 270, TRUE)
         [] b = "Open" /\ t = "Horizontal" /\ OE -> Glyph("curved_cross", 270, FALSE)
         [] b = "Open" /\ t = "Horizontal" /\ EE -> Glyph("curved_cross", 90, TRUE)
         [] b = "Open" /\ t = "Horizontal" /\ EO -> Glyph("curved_cross_under", 90, FALSE)
         [] OTHER -> ErrorBlock

\* draw_tiles: every tile of the grid, classified and resolved
draw_tiles(E) ==
    [t \in Tiles |-> draw_expr_for_tile(tile_for_pos(E, t[1], t[2]))]

\* ------------------------------------------------------- automaton grid
\* CellMatrix::new: the grid of the Life automaton
life_width == LifeCols

life_height == LifeRows

LifeCells == (0 .. (life_width - 1)) \X (0 .. (life_height - 1))

\* index into the 1d vector of cells (0-based in the source)
ind_for_pos(x, y) == y * life_width + x

cell_is_alive(C, x, y) == C[ind_for_pos(x, y) + 1]

\* mutant: a cell counts itself among its neighbours
n_neighbors_self(C, x, y) ==
    Cardinality({d \in (-1 .. 1) \X (-1 .. 1) :
        /\ ~(y + d[2] < 0 \/ y + d[2] >= life_height
               \/ x + d[1] < 0 \/ x + d[1] >= life_width)
        /\ cell_is_alive(C, x + d[1], y + d[2])})

\* the two inner loops of step: the live cells among the neighbours of (x,y)
n_neighbors(C, x, y) ==
    Cardinality({d \in (-1 .. 1) \X (-1 .. 1) :
        /\ ~(y + d[2] < 0 \/ y + d[2] >= life_height
               \/ x + d[1] < 0 \/ x + d[1] >= life_width)
        /\ ~(d[1] = 0 /\ d[2] = 0)
        /\ cell_is_alive(C, x + d[1], y + d[2])})

\* mutant: a dead cell with 2 neighbours becomes alive
new_cell_state_born2(alive, n) ==
    CASE alive /\ n < 2 -> FALSE
      [] alive /\ (n = 2 \/ n = 3) -> TRUE
      [] alive /\ n > 3 -> FALSE
      [] ~alive /\ (n = 3 \/ n = 2) -> TRUE
      [] OTHER -> alive

\* the match on (cell_is_alive, n_neighbors) in step
new_cell_state(alive, n) ==
    CASE alive /\ n < 2 -> FALSE
      [] alive /\ (n = 2 \/ n = 3) -> TRUE
      [] alive /\ n > 3 -> FALSE
      [] ~alive /\ n = 3 -> TRUE
      [] OTHER -> alive

\* CellMatrix::step: the buffer is filled from self.cells, then replaces it
step(C) ==
    [k \in 1 .. (life_width * life_height) |->
        LET x == (k - 1) % life_width
            y == (k - 1) \div life_width
        IN new_cell_state(cell_is_alive(C, x, y), n_neighbors(C, x, y))]

\* 1/rate of the specification, in clock ticks
step_interval == 2

\* ------------------------------------------------------------------ state
VARIABLES edges, click, node_pair, add_rem, screen, pc,
          cells, prev_cells, last_gap,
          tile_xy, tile_in, glyph_out

vars == <<edges, click, node_pair, add_rem, screen, pc,
          cells, prev_cells, last_gap, tile_xy, tile_in, glyph_out>>

\* the knot lattice: TileMatrix, the click of the frame and what is painted
lattice_vars == <<edges, click, node_pair, add_rem, screen, pc>>

\* the automaton: CellMatrix::cells, the generation before the last step,
\* and the time between the last two steps
life_vars == <<cells, prev_cells, last_gap>>

\* one classification / resolution: the tile asked for, its Tile, its glyph
query_vars == <<tile_xy, tile_in, glyph_out>>

\* no grid / no tile / nothing resolved
NoGrid == <<>>

NoTile == <<>>

NoGlyph == [glyph |-> "none", rotation |-> 0, flip_x |-> FALSE]

\* no primary click polled in this frame
NoClick == <<>>

NoPair == <<>>

\* nothing painted yet
NotDrawn == [glyph |-> "none", rotation |-> 0, flip_x |-> FALSE]

\* x coordinate of the right-most node of a shifted row
LatticeW == tile_size + (width \div 2) * 2 * tile_size

LatticeH == height * tile_size

\* pointer positions a click can report
Points == ((0 - Margin) .. (LatticeW + Margin)) \X ((0 - Margin) .. (LatticeH + Margin))

\* inside (or on the border of) the rendered grid of tiles
InGrid(p) ==
    /\ 0 <= p[1] /\ p[1] <= width * tile_size
    /\ 0 <= p[2] /\ p[2] <= height * tile_size

\* TileMatrix::new
LatticeInit ==
    /\ edges = {}
    /\ click = NoClick
    /\ node_pair = NoPair
    /\ add_rem = "None"
    /\ screen = [t \in Tiles |-> NotDrawn]
    /\ pc = "input"

\* no automaton in the run
LifeIdle == cells = NoGrid /\ prev_cells = NoGrid /\ last_gap = 0

\* no single tile asked for
QueryIdle == tile_xy = NoTile /\ tile_in = NoTile /\ glyph_out = NoGlyph

Init == LatticeInit /\ LifeIdle /\ QueryIdle

\* the size of the stored edge set stays within the model's bound
WithinBound(r) == Cardinality(r.edges) <= 2 * MaxEdges

\* a primary click at p handed to flip_edge
FlipEdge(p) ==
    /\ pc = "input"
    /\ LET r == flip_edge(edges, p)
       IN /\ WithinBound(r)
          /\ edges' = r.edges
          /\ add_rem' = r.add_rem
          /\ node_pair' = r.node_pair
    /\ click' = p
    /\ pc' = "draw"
    /\ UNCHANGED <<screen, life_vars, query_vars>>

\* mutant: the input layer hands every click to flip_edge
Click_unguarded(p) == FlipEdge(p)

\* a primary click at p as the input layer handles it: clicks outside the
\* rendered grid are ignored, the others are handed to flip_edge
Click(p) ==
    /\ pc = "input"
    /\ IF InGrid(p)
       THEN LET r == flip_edge(edges, p)
            IN /\ WithinBound(r)
               /\ edges' = r.edges
               /\ add_rem' = r.add_rem
               /\ node_pair' = r.node_pair
       ELSE /\ add_rem' = "None"
            /\ node_pair' = NoPair
            /\ UNCHANGED edges
    /\ click' = p
    /\ pc' = "draw"
    /\ UNCHANGED <<screen, life_vars, query_vars>>

\* a frame without a click
NoInput ==
    /\ pc = "input"
    /\ pc' = "draw"
    /\ UNCHANGED <<edges, click, node_pair, add_rem, screen, life_vars, query_vars>>

\* the render pass of the frame; the frame ends with it, and the click
\* event of the frame and the locals of its flip_edge call are gone
DrawTiles ==
    /\ pc = "draw"
    /\ screen' = draw_tiles(edges)
    /\ click' = NoClick
    /\ node_pair' = NoPair
    /\ add_rem' = "None"
    /\ pc' = "input"
    /\ UNCHANGED <<edges, life_vars, query_vars>>

Next ==
    \/ \E p \in Points : FlipEdge(p)
    \/ NoInput
    \/ DrawTiles

Spec == Init /\ [][Next]_vars

NextInput ==
    \/ \E p \in Points : Click(p)
    \/ NoInput
    \/ DrawTiles

SpecInput == Init /\ [][NextInput]_vars

\* ------------------------------------------------- the automaton's loop
\* every grid randomize can leave behind
Grids == [1 .. (life_width * life_height) -> BOOLEAN]

\* main: CellMatrix::new, then randomize
LifeInit ==
    /\ LatticeInit
    /\ QueryIdle
    /\ cells \in Grids
    /\ prev_cells = NoGrid
    /\ last_gap = 0

\* one pass of the loop of main: clear_background, step, draw, next_frame;
\* the frame comes dt clock ticks after the one before it, if there was one
LifeFrame ==
    /\ cells' = step(cells)
    /\ prev_cells' = cells
    /\ IF prev_cells = NoGrid
          THEN last_gap' = 0
          ELSE \E dt \in 1 .. MaxFrameTime : last_gap' = dt
    /\ UNCHANGED <<lattice_vars, query_vars>>

NextLife == LifeFrame

SpecLife == LifeInit /\ [][NextLife]_vars

\* ------------------------------------------- one tile, classified, resolved
\* the tiles of a grid of up to (MaxTile + 1) x (MaxTile + 1) tiles
QueryTiles == (0 .. MaxTile) \X (0 .. MaxTile)

\* the connections cut_for_tile looks up for tile t, in both orderings, that
\* a HashSet filled by flip_edge can hold (no negative coordinate)
CandidateSet(t) ==
    LET row == IF t[2] % 2 = 1 THEN "Odd" ELSE "Even"
        col == IF t[1] % 2 = 1 THEN "Odd" ELSE "Even"
        cb  == cut_candidates(t[1], t[2], row, col, TRUE)
        ct  == cut_candidates(t[1], t[2], row, col, FALSE)
        all == {cb.vert, cb.hori, ct.vert, ct.hori}
    IN {e \in all \cup {Rev(f) : f \in all} :
          e[1][1] >= 0 /\ e[1][2] >= 0 /\ e[2][1] >= 0 /\ e[2][2] >= 0}

\* every combination of the two cuts and the two parities
Cuts == {"Open", "Horizontal", "Vertical", "Cross"}

Offsets == {"Even", "Odd"}

AllTiles == [bottom_cut : Cuts, top_cut : Cuts, row_offset : Offsets, col_offset : Offsets]

\* a graph and a tile of the grid, nothing classified yet
ClassifyInit ==
    /\ click = NoClick /\ node_pair = NoPair /\ add_rem = "None"
    /\ screen = [t \in Tiles |-> NotDrawn] /\ pc = "input"
    /\ LifeIdle
    /\ tile_xy \in QueryTiles
    /\ edges \in SUBSET CandidateSet(tile_xy)
    /\ tile_in = NoTile
    /\ glyph_out = NoGlyph

\* a Tile value handed to the resolver
ResolveInit ==
    /\ LatticeInit
    /\ LifeIdle
    /\ tile_xy = NoTile
    /\ tile_in \in AllTiles
    /\ glyph_out = NoGlyph

\* draw_tiles, first half of the loop body: tile_for_pos(x, y)
Classify ==
    /\ tile_xy # NoTile
    /\ tile_in = NoTile
    /\ tile_in' = tile_for_pos(edges, tile_xy[1], tile_xy[2])
    /\ UNCHANGED <<lattice_vars, life_vars, tile_xy, glyph_out>>

\* draw_tiles, second half of the loop body: draw_expr_for_tile(tile)
Resolve ==
    /\ tile_in # NoTile
    /\ glyph_out = NoGlyph
    /\ glyph_out' = draw_expr_for_tile(tile_in)
    /\ UNCHANGED <<lattice_vars, life_vars, tile_xy, tile_in>>

NextClassify == Classify \/ Resolve

SpecClassify == ClassifyInit /\ [][NextClassify]_vars

NextResolve == Resolve

SpecResolve == ResolveInit /\ [][NextResolve]_vars

\* ============================================================== properties
\* a step in which flip_edge ran
FlipStep == pc = "input" /\ click' # NoClick /\ node_pair' # NoPair

\* C1: in every reachable state the edge set is symmetric: (A,B) is a member
\* if and only if (B,A) is, so membership does not depend on the node order.
C1_EdgesSymmetric == \A e \in edges : Rev(e) \in edges

C1_Witness ==
    /\ add_rem = "Removed"
    /\ \E e \in edges : e[1] # e[2] /\ Rev(e) \in edges

\* C2: a toggle flips membership: a connection present in either order before
\* flip_edge is absent in both orders after it and the outcome is Removed;
\* otherwise it is present in both orders after it and the outcome is Added.
C2_ToggleFlipsMembership ==
    [][FlipStep =>
         LET np == node_pair'
         IN IF np \in edges \/ Rev(np) \in edges
            THEN np \notin edges' /\ Rev(np) \notin edges' /\ add_rem' = "Removed"
            ELSE np \in edges' /\ Rev(np) \in edges' /\ add_rem' = "Added"]_vars

C2_Witness ==
    /\ add_rem = "Removed"
    /\ node_pair[1] # node_pair[2]
    /\ node_pair \notin edges /\ Rev(node_pair) \notin edges
    /\ edges # {}

\* C3: after any toggle of a connection, toggling the same connection again,
\* in the same or in the reversed node order, gives back exactly the edge set
\* from before the first toggle.
C3_DoubleToggleRestores ==
    [][FlipStep =>
         \A q \in {node_pair', Rev(node_pair')} : toggle(edges', q).edges = edges]_vars

C3_Witness ==
    /\ add_rem = "Removed"
    /\ node_pair[1] # node_pair[2]
    /\ edges = {}
    /\ \E t \in Tiles : screen[t] # draw_tiles({})[t] /\ screen[t] # NotDrawn

\* C4 (as claimed): no tile of the grid is ever painted as the fallback error
\* block, i.e. no cut of a tile is ever Cross.
C4_NeverErrorBlock ==
    /\ \A t \in Tiles : screen[t] # ErrorBlock
    /\ \A t \in Tiles :
         LET tile == tile_for_pos(edges, t[1], t[2])
         IN tile.bottom_cut # "Cross" /\ tile.top_cut # "Cross"

\* C5 (as claimed): every stored connection joins two distinct adjacent nodes:
\* same row and columns 1 apart, or same column and rows 2 apart.
C5_EdgesAdjacent ==
    \A e \in edges :
       \/ e[1][2] = e[2][2] /\ Abs(e[1][1] - e[2][1]) = 1
       \/ e[1][1] = e[2][1] /\ Abs(e[1][2] - e[2][2]) = 2

C7_RoundTrip ==
    click # NoClick /\ node_pair # NoPair =>
       \A n \in Nodes : loc_for_node(n[1], n[2]) = click => node_pair[1] = n

C7_Witness ==
    /\ click = loc_for_node(1, 1)
    /\ node_pair # NoPair
    /\ node_pair[1] = <<1, 1>>

\* inside the extent of the lattice
InExtent(p) ==
    /\ 0 <= p[1] /\ p[1] <= LatticeW
    /\ 0 <= p[2] /\ p[2] <= LatticeH

\* C8: for a point inside the lattice's extent the screen position of the
\* nearest node is within one tile_size of the point in x and in y.
C8_NearestWithinTile ==
    click # NoClick /\ node_pair # NoPair /\ InExtent(click) =>
       LET l == loc_for_node(node_pair[1][1], node_pair[1][2])
       IN /\ Abs(l[1] - click[1]) <= tile_size
          /\ Abs(l[2] - click[2]) <= tile_size

\* a click at the left border of a shifted row: the nearest node is one
\* tile_size to the right
C8_Witness ==
    /\ click # NoClick
    /\ node_pair # NoPair
    /\ click[1] = 0
    /\ node_pair[1] = <<0, 1>>
    /\ loc_for_node(0, 1)[1] - click[1] = tile_size

\* the glyph the empty graph gives a tile of the given parities
EmptyGlyph(row_offset, col_offset) ==
    CASE row_offset = "Even" /\ col_offset = "Even" -> Glyph("straight_cross", 0, FALSE)
      [] row_offset = "Even" /\ col_offset = "Odd"  -> Glyph("straight_cross", 90, FALSE)
      [] row_offset = "Odd" /\ col_offset = "Odd"   -> Glyph("straight_cross", 180, FALSE)
      [] row_offset = "Odd" /\ col_offset = "Even"  -> Glyph("straight_cross", 270, FALSE)

Parity(v) == IF v % 2 = 0 THEN "Even" ELSE "Odd"

OnlyEdge02 == {<<<<0, 0>>, <<0, 2>>>>, <<<<0, 2>>, <<0, 0>>>>}

Alive(C, c) == C[c[2] * life_width + c[1] + 1]

\* the live cells of grid C among the up-to-8 cells adjacent to c in the grid
LiveNeighbours(C, c) ==
    Cardinality({n \in LifeCells :
        /\ n # c
        /\ Abs(n[1] - c[1]) <= 1
        /\ Abs(n[2] - c[2]) <= 1
        /\ Alive(C, n)})

\* C11: after a step a cell is alive iff it was alive with 2 or 3 live
\* neighbours or dead with exactly 3, the neighbours being the adjacent cells
\* inside the grid, all read in the grid as it was before the step.
C11_StandardLifeRule ==
    prev_cells # NoGrid =>
       \A c \in LifeCells :
          Alive(cells, c) <=>
             \/ Alive(prev_cells, c) /\ LiveNeighbours(prev_cells, c) \in {2, 3}
             \/ ~Alive(prev_cells, c) /\ LiveNeighbours(prev_cells, c) = 3

\* a step in which a corner cell with three live neighbours was born, a cell
\* died and a cell survived
C11_Witness ==
    /\ prev_cells # NoGrid
    /\ ~Alive(prev_cells, <<0, 0>>) /\ Alive(cells, <<0, 0>>)
    /\ \E c \in LifeCells : Alive(prev_cells, c) /\ ~Alive(cells, c)
    /\ \E c \in LifeCells : Alive(prev_cells, c) /\ Alive(cells, c)

\* the grid whose live cells are exactly the given ones
GridOf(live) ==
    [k \in 1 .. (life_width * life_height) |->
        <<(k - 1) % life_width, (k - 1) \div life_width>> \in live]

BlinkerRow == GridOf({<<0, 1>>, <<1, 1>>, <<2, 1>>})

BlinkerCol == GridOf({<<1, 0>>, <<1, 1>>, <<1, 2>>})

\* C12: one step takes the row (0,1),(1,1),(2,1) to exactly the column
\* (1,0),(1,1),(1,2), and one more step takes the column back to the row.
C12_Blinker ==
    /\ prev_cells = BlinkerRow => cells = BlinkerCol
    /\ prev_cells = BlinkerCol => cells = BlinkerRow

\* the second of two steps of the oscillation
C12_Witness ==
    /\ last_gap > 0
    /\ prev_cells = BlinkerCol
    /\ cells = BlinkerRow

\* C13 (as claimed): two steps are never less than 1/rate apart: a step is
\* taken only when more than 1/rate has passed since the step before it.
C13_StepsGated == last_gap # 0 => last_gap > step_interval

\* the cut a pair of presence tests reduces to
Reduced(vert_exists, hori_exists) ==
    IF vert_exists /\ hori_exists THEN "Cross"
    ELSE IF vert_exists THEN "Vertical"
    ELSE IF hori_exists THEN "Horizontal"
    ELSE "Open"

HasNegative(e) == e[1][1] < 0 \/ e[1][2] < 0 \/ e[2][1] < 0 \/ e[2][2] < 0

C16_LineArms ==
    tile_in # NoTile /\ glyph_out # NoGlyph =>
       /\ tile_in.bottom_cut = "Horizontal" /\ tile_in.top_cut = "Horizontal"
             => glyph_out = Glyph("vertical_line", 90, FALSE)
       /\ tile_in.bottom_cut = "Vertical" /\ tile_in.top_cut = "Vertical"
             => glyph_out = Glyph("vertical_line", 0, FALSE)

C16_Witness ==
    /\ tile_in # NoTile
    /\ tile_in.bottom_cut = "Vertical" /\ tile_in.top_cut = "Vertical"
    /\ tile_in.row_offset = "Odd" /\ tile_in.col_offset = "Even"
    /\ glyph_out = Glyph("vertical_line", 0, FALSE)

GlyphNames == {"corner", "vertical_line", "straight_cross", "curved_cross",
               "curved_cross_under"}

\* C17: over the 64 tuples the resolver gives the fallback block exactly when
\* a cut is Cross; the 36 other tuples, and only they, give one of the 5
\* glyphs at a rotation of 0, 90, 180 or 270.
C17_FallbackIffCross ==
    /\ tile_in # NoTile /\ glyph_out # NoGlyph =>
          /\ glyph_out.glyph = "error_block"
                <=> (tile_in.bottom_cut = "Cross" \/ tile_in.top_cut = "Cross")
          /\ glyph_out.glyph # "error_block" =>
                /\ glyph_out.glyph \in GlyphNames
                /\ glyph_out.rotation \in {0, 90, 180, 270}
    /\ Cardinality(AllTiles) = 64
    /\ Cardinality({t \in AllTiles : draw_expr_for_tile(t).glyph \in GlyphNames}) = 36

C17_Witness ==
    /\ tile_in # NoTile
    /\ tile_in.bottom_cut = "Cross" /\ tile_in.top_cut = "Open"
    /\ glyph_out = ErrorBlock

Sign(v) == IF v >= 0 THEN 1 ELSE -1

\* C15 (as claimed): with x_dist and y_dist the offsets of the click from the
\* nearest node, the second node is in the same row, one column further by
\* the sign of x_dist, when |x_dist| >= |y_dist|, and in the same column, two
\* rows further by the sign of y_dist, otherwise.  Stated for the clicks
\* whose second node, as the claim names it, has no negative coordinate, so
\* that the clamping of nearest_edge_to_click plays no part.
C15_MagnitudeRule ==
    click # NoClick /\ node_pair # NoPair =>
       LET n1      == node_pair[1]
           l       == loc_for_node(n1[1], n1[2])
           \* both offsets as numerators over 2 * tile_size
           x_dist  == click[1] - l[1]
           y_dist  == 2 * (click[2] - l[2])
           claimed == IF Abs(x_dist) >= Abs(y_dist)
                      THEN <<n1[1] + Sign(x_dist), n1[2]>>
                      ELSE <<n1[1], n1[2] + 2 * Sign(y_dist)>>
       IN claimed[1] >= 0 /\ claimed[2] >= 0 => node_pair[2] = claimed

\* C18: a toggle of {A,B} changes the membership of (A,B) and (B,A) only, and
\* the render pass (tile_for_pos, cut_for_tile on every tile) leaves the edge
\* set as it is.
C18_ToggleFrame ==
    [][/\ FlipStep =>
            \A e \in edges \cup edges' :
               e \notin {node_pair', Rev(node_pair')} => (e \in edges <=> e \in edges')
       /\ pc = "draw" => edges' = edges]_vars

\* a connection was removed while another one stayed, after a render pass
C18_Witness ==
    /\ add_rem = "Removed"
    /\ edges # {}
    /\ node_pair \notin edges
    /\ \E t \in Tiles : screen[t] # NotDrawn

====
